---- MODULE Spec2Model ----
(***************************************************************************)
(* N-Attune (src/script.js): per-frame signal extraction, the suggestion   *)
(* rule engine, the commit state machine (800 ms stable, 4 s lock) and the *)
(* output coordinator, as a state machine over the fields of the script's  *)
(* `state` object, localStorage, the pending timers and the scheduled      *)
(* animation-frame callbacks.                                              *)
(*                                                                         *)
(* Numbers: scores and normalized coordinates are fixed-point thousandths  *)
(* (0.15 is 150, 1.0 is One); times are milliseconds as Date.now() gives   *)
(* them.  One handler runs at one instant `now`: the Date.now() calls      *)
(* inside one synchronous handler read the same millisecond.               *)
(***************************************************************************)
EXTENDS Integers, Sequences, FiniteSets, TLC

VARIABLES
    state,          \* the script's `state` object
    localStorage,   \* window.localStorage
    timeouts,       \* pending setTimeout callbacks of commitMessage, in due order
    utterance,      \* the speech sink: the last speak() request, and every
                    \* request made so far (said)
    dom,            \* the DOM fields the handlers read or that show a decision
    raf,            \* requestAnimationFrame callbacks per function: those the
                    \* next frame will run (next) and those due now (ready)
    pending,        \* getUserMedia promises not yet settled
    now             \* Date.now()

vars == <<state, localStorage, timeouts, utterance, dom, raf, pending, now>>

----------------------------------------------------------------------------
(* CONFIG, src/script.js:67-90 *)

STABILITY_TIME == 800
LOCK_TIME == 4000
TTS_COOLDOWN == 4000
REPEAT_COOLDOWN == 10000
SMILE_THRESHOLD == 300
MOUTH_OPEN_THRESHOLD == 150
SOUND_SPIKE_THRESHOLD == 400
NOD_THRESHOLD == 15
SHAKE_THRESHOLD == 20
GESTURE_FRAMES == 10
MAX_LOG_ITEMS == 50
HISTORY_WINDOW == 500
FADE_DELAY == 200
OUTPUT_INTERVAL == 1000

One == 1000
NULL == "null"
NoTime == -1
NoOutput == "-"

----------------------------------------------------------------------------
(* Bounds of the model *)

PageLoadTime == 20000   \* Date.now() when the page is constructed
Horizon == 5600         \* SpecCommit: the clock stops this long after page load
MaxLog == 1             \* SpecCommit: buttons are offered while the log is shorter
EventHorizon == 800     \* SpecEvents: the clock stops this long after page load
MaxEventLog == 1        \* SpecEvents: buttons are offered while the log is shorter
MaxPending == 1         \* getUserMedia requests not yet settled, per device
MaxFrames == 1          \* scheduled callbacks of one function
OutputHorizon == 12000  \* SpecOutput: the clock stops this long after page load
MaxOutputLog == 3       \* SpecOutput: buttons are offered while the log is shorter
LogHorizon == 800       \* SpecLog: the clock stops this long after page load
MaxInserts == 3         \* SpecLog: commits made since the page was loaded
LoopHorizon == 1200     \* SpecLoop: the clock stops this long after page load
MaxLoops == 2           \* SpecLoop: scheduled detectFace callbacks
NoseHorizon == 550      \* SpecNose: the clock stops this long after page load
RateHorizon == 5600     \* SpecRate: the clock stops this long after page load
LineHorizon == 4000     \* SpecLine: the clock stops this long after page load
MaxLineLog == 2         \* SpecLine: buttons are offered while the log is shorter
MaxRateLog == 2         \* SpecRate: buttons are offered while the log is shorter

Patients == {"Ann", "Bob"}
Moods == {"Feeling tired"}
Needs == {"Water"}

----------------------------------------------------------------------------
(* Arithmetic helpers *)

Min(a, b) == IF a < b THEN a ELSE b
Max(a, b) == IF a > b THEN a ELSE b
Abs(a) == IF a < 0 THEN -a ELSE a
Clamp01(v) == Max(0, Min(One, v))

----------------------------------------------------------------------------
(* Perception samples: what faceLandmarker.detectForVideo returns.         *)
(* lm maps a landmark index to a point; bs maps a blendshape name to its   *)
(* score.  kind "none" is a result without a face, "throw" a detect call   *)
(* that throws, "stale" a tick without a new video frame.                  *)

Pt(px, py) == [x |-> px, y |-> py]

MouthLandmarks == {61, 291, 13, 14}

RestMouth(nose) ==
    (61 :> Pt(450, 600)) @@ (291 :> Pt(550, 600)) @@
    (13 :> Pt(500, 575)) @@ (14 :> Pt(500, 625)) @@ (4 :> nose)

LiftedMouth(nose) ==
    (61 :> Pt(450, 580)) @@ (291 :> Pt(550, 580)) @@
    (13 :> Pt(500, 575)) @@ (14 :> Pt(500, 625)) @@ (4 :> nose)

NoShapes == [n \in {} |-> 0]
Shapes(names, v) == [n \in names |-> v]

NoseRest == Pt(500, 500)

FrameNone == [kind |-> "none", lm |-> RestMouth(NoseRest), bs |-> NoShapes]
FrameStale == [kind |-> "stale", lm |-> RestMouth(NoseRest), bs |-> NoShapes]
FrameThrow == [kind |-> "throw", lm |-> RestMouth(NoseRest), bs |-> NoShapes]
FrameNeutral ==
    [kind |-> "face", lm |-> RestMouth(NoseRest), bs |-> Shapes({"jawOpen"}, 0)]
FrameSmile ==
    [kind |-> "face", lm |-> RestMouth(NoseRest),
     bs |-> Shapes({"mouthSmileLeft", "mouthSmileRight"}, 500)]
FrameSad ==
    [kind |-> "face", lm |-> RestMouth(NoseRest),
     bs |-> Shapes({"mouthFrownLeft", "mouthFrownRight"}, 400)]
FrameJaw ==
    [kind |-> "face", lm |-> RestMouth(NoseRest), bs |-> Shapes({"jawOpen"}, 600)]
FrameLandmarkSmile ==
    [kind |-> "face", lm |-> LiftedMouth(NoseRest), bs |-> NoShapes]
(* samples at the ends of the ranges: every expression at full intensity,  *)
(* and, without blendshapes, a mouth as high as it is wide and one whose   *)
(* corners lie 0.12 below the midline of the lips                          *)
ShapeNames ==
    {"mouthSmileLeft", "mouthSmileRight", "mouthFrownLeft", "mouthFrownRight",
     "browInnerUp", "browOuterUpLeft", "browOuterUpRight",
     "browDownLeft", "browDownRight", "eyeWideLeft", "eyeWideRight", "jawOpen"}
FrameFullShapes ==
    [kind |-> "face", lm |-> LiftedMouth(NoseRest), bs |-> Shapes(ShapeNames, One)]
FrameLandmarkGape ==
    [kind |-> "face",
     lm |-> (61 :> Pt(0, 500)) @@ (291 :> Pt(1000, 500)) @@
            (13 :> Pt(500, 0)) @@ (14 :> Pt(500, 1000)) @@ (4 :> NoseRest),
     bs |-> NoShapes]
FrameLandmarkFrown ==
    [kind |-> "face",
     lm |-> (61 :> Pt(450, 720)) @@ (291 :> Pt(550, 720)) @@
            (13 :> Pt(500, 575)) @@ (14 :> Pt(500, 625)) @@ (4 :> NoseRest),
     bs |-> NoShapes]
(* malformed samples: a face whose landmark list lacks the mouth roles, and *)
(* one that lacks the nose tip                                             *)
FrameNoMouth ==
    [kind |-> "face", lm |-> (4 :> NoseRest),
     bs |-> Shapes({"mouthFrownLeft", "mouthFrownRight"}, 400)]
FrameNoNose ==
    [kind |-> "face",
     lm |-> [i \in MouthLandmarks |-> RestMouth(NoseRest)[i]],
     bs |-> Shapes({"mouthFrownLeft", "mouthFrownRight"}, 400)]

----------------------------------------------------------------------------
(* The world a handler runs in: every variable but the clock.  `thrown`    *)
(* tells that an exception is on its way up the call stack: the callers    *)
(* skip the rest of their bodies until a catch takes it, and what was      *)
(* written before the throw stays written.                                 *)

World ==
    [state |-> state, localStorage |-> localStorage, timeouts |-> timeouts,
     utterance |-> utterance, dom |-> dom, raf |-> raf, pending |-> pending,
     thrown |-> FALSE]

Becomes(w) ==
    /\ state' = w.state
    /\ localStorage' = w.localStorage
    /\ timeouts' = w.timeouts
    /\ utterance' = w.utterance
    /\ dom' = w.dom
    /\ raf' = w.raf
    /\ pending' = w.pending

----------------------------------------------------------------------------
(* Two faulty rule engines, to show that C9 and C10 tell the code's rule   *)
(* order and its strict comparisons from near misses: the distress rules   *)
(* ahead of the gestures, and the smile rule with >= for >.                *)

generateSuggestionDistressFirst(s) ==
    LET hasSound == s.soundLevel > SOUND_SPIKE_THRESHOLD IN
    IF s.mouthOpenScore > MOUTH_OPEN_THRESHOLD /\ hasSound THEN "Needs attention"
    ELSE IF s.movementScore > 500 /\ hasSound THEN "Needs a break"
    ELSE IF s.headGesture = "nod" THEN "Yes"
    ELSE IF s.headGesture = "shake" THEN "No"
    ELSE IF s.smileScore > 80 THEN "Feeling happy"
    ELSE IF s.emotionScores.sad > 150 THEN "Feeling sad"
    ELSE IF s.emotionScores.surprised > 200 THEN "Surprised"
    ELSE NULL

generateSuggestionInclusive(s) ==
    LET hasSound == s.soundLevel > SOUND_SPIKE_THRESHOLD IN
    IF s.headGesture = "nod" THEN "Yes"
    ELSE IF s.headGesture = "shake" THEN "No"
    ELSE IF s.mouthOpenScore > MOUTH_OPEN_THRESHOLD /\ hasSound THEN "Needs attention"
    ELSE IF s.movementScore > 500 /\ hasSound THEN "Needs a break"
    ELSE IF s.smileScore >= 80 THEN "Feeling happy"
    ELSE IF s.emotionScores.sad > 150 THEN "Feeling sad"
    ELSE IF s.emotionScores.surprised > 200 THEN "Surprised"
    ELSE NULL

(* SUGGESTION ENGINE: generateSuggestion, src/script.js:877-911 *)

generateSuggestion(s) ==
    LET hasSound == s.soundLevel > SOUND_SPIKE_THRESHOLD IN
    IF s.headGesture = "nod" THEN "Yes"
    ELSE IF s.headGesture = "shake" THEN "No"
    ELSE IF s.mouthOpenScore > MOUTH_OPEN_THRESHOLD /\ hasSound THEN "Needs attention"
    ELSE IF s.movementScore > 500 /\ hasSound THEN "Needs a break"
    ELSE IF s.smileScore > 80 THEN "Feeling happy"
    ELSE IF s.emotionScores.sad > 150 THEN "Feeling sad"
    ELSE IF s.emotionScores.surprised > 200 THEN "Surprised"
    ELSE NULL

(* updateSignalTone, src/script.js:913-948 *)
updateSignalTone(s) ==
    LET hasSound == s.soundLevel > SOUND_SPIKE_THRESHOLD IN
    IF s.currentEmotion = "happy" /\ s.emotionScores.happy > 300 THEN "positive"
    ELSE IF s.currentEmotion = "sad" /\ s.emotionScores.sad > 300 THEN "sad"
    ELSE IF s.currentEmotion = "surprised" /\ s.emotionScores.surprised > 300
         THEN "surprised"
    ELSE IF s.smileScore > SMILE_THRESHOLD THEN "positive"
    ELSE IF (s.movementScore > 500 /\ hasSound) \/ (s.headGesture = "shake" /\ hasSound)
         THEN "distress"
    ELSE "neutral"

----------------------------------------------------------------------------
(* CONVERSATION LOG and TEXT-TO-SPEECH *)

(* JSON.stringify / JSON.parse of the log.  An entry holds a number and    *)
(* strings only; its text is the list of its values in the order of its    *)
(* keys, and parsing rebuilds the object from that list.  The stored item  *)
(* is the text of the whole list, told apart from an absent item.          *)
StringifyEntry(e) == <<e.id, e.message, e.type, e.patient>>
ParseEntry(j) == [id |-> j[1], message |-> j[2], type |-> j[3], patient |-> j[4]]
Stringify(log) ==
    [present |-> TRUE, json |-> [i \in 1..Len(log) |-> StringifyEntry(log[i])]]
Absent == [present |-> FALSE, json |-> <<>>]
Parse(item) == [i \in 1..Len(item.json) |-> ParseEntry(item.json[i])]

(* Array.prototype.slice(-n): the last n elements *)
SliceLast(seq, n) ==
    IF Len(seq) <= n THEN seq ELSE SubSeq(seq, Len(seq) - n + 1, Len(seq))

(* Array.prototype.slice(0, n): the first n elements *)
SliceFirst(seq, n) == IF Len(seq) <= n THEN seq ELSE SubSeq(seq, 1, n)

(* savePatientLog, src/script.js:1069-1072.  localStorage.setItem throws   *)
(* when the storage is full (the quota is used up, or the browser gives    *)
(* the page none), and nothing here catches it.                            *)
savePatientLog(w) ==
    IF w.localStorage.full THEN [w EXCEPT !.thrown = TRUE]
    ELSE [w EXCEPT !.localStorage.log[w.state.currentPatient] =
             Stringify(SliceLast(w.state.conversationLog, MAX_LOG_ITEMS))]

(* loadPatientLog, src/script.js:1063-1067 *)
loadPatientLog(w) ==
    LET saved == w.localStorage.log[w.state.currentPatient] IN
    [w EXCEPT !.state.conversationLog = IF saved.present THEN Parse(saved) ELSE <<>>]

(* A faulty addToLog for C15: beyond the maximum the last 50 are kept, as  *)
(* savePatientLog slices, which drops the entry just inserted.             *)
addToLogKeepsLast(w, message, type, t) ==
    LET entry == [id |-> t, message |-> message, type |-> type,
                  patient |-> w.state.currentPatient]
        log == <<entry>> \o w.state.conversationLog
        w1 == [w EXCEPT !.state.conversationLog =
                  IF Len(log) > MAX_LOG_ITEMS THEN SliceLast(log, MAX_LOG_ITEMS) ELSE log]
    IN savePatientLog(w1)

(* addToLog, src/script.js:1074-1092 *)
addToLog(w, message, type, t) ==
    LET entry == [id |-> t, message |-> message, type |-> type,
                  patient |-> w.state.currentPatient]
        log == <<entry>> \o w.state.conversationLog
        w1 == [w EXCEPT !.state.conversationLog =
                  IF Len(log) > MAX_LOG_ITEMS THEN SliceFirst(log, MAX_LOG_ITEMS) ELSE log]
    IN savePatientLog(w1)

(* speak, src/script.js:1038-1057 *)
speak(w, text, t) ==
    [w EXCEPT !.utterance = [text |-> text, time |-> t,
                             said |-> @.said \cup {[text |-> text, time |-> t]}]]

----------------------------------------------------------------------------
(* COMMIT SYSTEM: commitMessage, src/script.js:954-1005 *)

(* Faulty speech tests.  For C13: the cooldown alone decides.  For C14:    *)
(* a repeat is let through once the cooldown has passed twice.             *)
MaySpeakAfterCooldown(s, message, t) == t - s.lastTTSTime >= TTS_COOLDOWN

MaySpeakEarlyRepeat(s, message, t) ==
    LET timeSinceLastTTS == t - s.lastTTSTime
        isSameMessage == message = s.lastTTSMessage
    IN timeSinceLastTTS >= TTS_COOLDOWN
       /\ (~isSameMessage \/ timeSinceLastTTS >= 2 * TTS_COOLDOWN)

(* the speech suppression test, src/script.js:982-987 *)
MaySpeak(s, message, t) ==
    LET timeSinceLastTTS == t - s.lastTTSTime
        isSameMessage == message = s.lastTTSMessage
        timeSinceRepeat == t - s.lastTTSTime
    IN timeSinceLastTTS >= TTS_COOLDOWN
       /\ (~isSameMessage \/ timeSinceRepeat >= REPEAT_COOLDOWN)

(* Faulty variants of commitMessage.  For C11: the entry is logged only    *)
(* when the message is spoken.                                             *)
commitMessageLogsSpoken(w, message, type, t) ==
    LET w1 == [w EXCEPT !.state.isLocked = TRUE,
                        !.state.lockEndTime = t + LOCK_TIME,
                        !.timeouts = Append(w.timeouts,
                            [due |-> t + FADE_DELAY, message |-> message, time |-> t])]
        w2 == IF w1.state.soundEnabled /\ MaySpeak(w1.state, message, t)
              THEN addToLog([speak(w1, message, t) EXCEPT !.state.lastTTSTime = t,
                                                          !.state.lastTTSMessage = message],
                            message, type, t)
              ELSE w1
    IN IF w2.thrown THEN w2 ELSE [w2 EXCEPT !.dom.stability = "locked"]

(* For C12: the display timer of a commit is run ahead of the timers       *)
(* still pending.                                                          *)
commitMessageTimerFirst(w, message, type, t) ==
    LET w1 == [w EXCEPT !.state.isLocked = TRUE,
                        !.state.lockEndTime = t + LOCK_TIME,
                        !.timeouts = <<[due |-> t + FADE_DELAY, message |-> message,
                                        time |-> t]>> \o w.timeouts]
        w2 == IF w1.state.soundEnabled /\ MaySpeak(w1.state, message, t)
              THEN [speak(w1, message, t) EXCEPT !.state.lastTTSTime = t,
                                                 !.state.lastTTSMessage = message]
              ELSE w1
        w3 == addToLog(w2, message, type, t)
    IN IF w3.thrown THEN w3 ELSE [w3 EXCEPT !.dom.stability = "locked"]

(* A faulty commitMessage for C31: the speech test leaves the sound toggle  *)
(* out.                                                                    *)
commitMessageSpeaksMuted(w, message, type, t) ==
    LET w1 == [w EXCEPT !.state.isLocked = TRUE,
                        !.state.lockEndTime = t + LOCK_TIME,
                        !.timeouts = Append(w.timeouts,
                            [due |-> t + FADE_DELAY, message |-> message, time |-> t])]
        w2 == IF MaySpeak(w1.state, message, t)
              THEN [speak(w1, message, t) EXCEPT !.state.lastTTSTime = t,
                                                 !.state.lastTTSMessage = message]
              ELSE w1
        w3 == addToLog(w2, message, type, t)
    IN IF w3.thrown THEN w3 ELSE [w3 EXCEPT !.dom.stability = "locked"]

commitMessage(w, message, type, t) ==
    LET w1 == [w EXCEPT !.state.isLocked = TRUE,
                        !.state.lockEndTime = t + LOCK_TIME,
                        !.timeouts = Append(w.timeouts,
                            [due |-> t + FADE_DELAY, message |-> message, time |-> t])]
        w2 == IF w1.state.soundEnabled /\ MaySpeak(w1.state, message, t)
              THEN [speak(w1, message, t) EXCEPT !.state.lastTTSTime = t,
                                                 !.state.lastTTSMessage = message]
              ELSE w1
        w3 == addToLog(w2, message, type, t)
    IN IF w3.thrown THEN w3 ELSE [w3 EXCEPT !.dom.stability = "locked"]

(* updateOutputTime, src/script.js:1007-1029: the line under the output,   *)
(* built from the patient and the output as they are when it runs.  The    *)
(* age of the output that ends the line ("Just now", "5 seconds ago") is   *)
(* left out.                                                               *)
updateOutputTime(w) ==
    [w EXCEPT !.dom.outputTime =
        IF w.state.outputTime = NoTime THEN ""
        ELSE w.state.currentPatient \o " said " \o w.state.currentOutput]

(* the setTimeout callback of commitMessage, src/script.js:972-978 *)
showOutput(w, cb) ==
    updateOutputTime([w EXCEPT !.state.currentOutput = cb.message,
                               !.state.outputTime = cb.time,
                               !.timeouts = Tail(w.timeouts)])

----------------------------------------------------------------------------
(* updateSuggestion, src/script.js:832-875 *)

(* Faulty variants of the two tests below, for C2 and C1: the lock test    *)
(* with its comparison turned round, the stability test with > for >=.     *)
FrozenAfterEnd(s, t) == s.isLocked /\ t > s.lockEndTime

StableLate(s, t) == t - s.suggestionStartTime > STABILITY_TIME

(* the lock test, src/script.js:836 *)
Frozen(s, t) == s.isLocked /\ t < s.lockEndTime

(* the stability test, src/script.js:858-860 *)
Stable(s, t) == t - s.suggestionStartTime >= STABILITY_TIME

(* A faulty variant for C28: a commit leaves the candidate as it is. *)
clearCandidateNot(w) == w

(* A faulty variant for C8: the candidate cleared, its start time left. *)
clearCandidateOnly(w) == [w EXCEPT !.state.currentSuggestion = NULL]

(* the candidate bookkeeping after a commit, src/script.js:863-864 *)
clearCandidate(w) ==
    [w EXCEPT !.state.currentSuggestion = NULL, !.state.suggestionStartTime = NoTime]

(* Two faulty stability checks, for C3 and C6: a changed candidate takes   *)
(* over the clock of the one it replaces, and a null suggestion leaves the *)
(* candidate in place.                                                     *)
checkStabilityKeepsClock(w, suggestion, t) ==
    IF suggestion # NULL /\ suggestion # w.state.currentSuggestion
    THEN [w EXCEPT !.state.currentSuggestion = suggestion,
                   !.state.suggestionStartTime =
                       IF w.state.currentSuggestion = NULL THEN t ELSE @,
                   !.dom.stability = "stabilizing"]
    ELSE IF suggestion # NULL /\ suggestion = w.state.currentSuggestion
    THEN IF Stable(w.state, t)
         THEN LET committed == commitMessage(w, suggestion, "signal", t)
              IN IF committed.thrown THEN committed ELSE clearCandidate(committed)
         ELSE [w EXCEPT !.dom.stability = "stabilizing"]
    ELSE [clearCandidate(w) EXCEPT !.dom.stability = "waiting"]

checkStabilityKeepsCandidate(w, suggestion, t) ==
    IF suggestion # NULL /\ suggestion # w.state.currentSuggestion
    THEN [w EXCEPT !.state.currentSuggestion = suggestion,
                   !.state.suggestionStartTime = t,
                   !.dom.stability = "stabilizing"]
    ELSE IF suggestion # NULL /\ suggestion = w.state.currentSuggestion
    THEN IF Stable(w.state, t)
         THEN LET committed == commitMessage(w, suggestion, "signal", t)
              IN IF committed.thrown THEN committed ELSE clearCandidate(committed)
         ELSE [w EXCEPT !.dom.stability = "stabilizing"]
    ELSE [w EXCEPT !.dom.stability = "waiting"]

(* the stability check on an evaluated suggestion, src/script.js:852-874 *)
checkStability(w, suggestion, t) ==
    IF suggestion # NULL /\ suggestion # w.state.currentSuggestion
    THEN [w EXCEPT !.state.currentSuggestion = suggestion,
                   !.state.suggestionStartTime = t,
                   !.dom.stability = "stabilizing"]
    ELSE IF suggestion # NULL /\ suggestion = w.state.currentSuggestion
    THEN IF Stable(w.state, t)
         THEN LET committed == commitMessage(w, suggestion, "signal", t)
              IN IF committed.thrown THEN committed ELSE clearCandidate(committed)
         ELSE [w EXCEPT !.dom.stability = "stabilizing"]
    ELSE [clearCandidate(w) EXCEPT !.dom.stability = "waiting"]

updateSuggestion(w, t) ==
    IF Frozen(w.state, t)
    THEN [w EXCEPT !.dom.stability = "locked"]
    ELSE LET w1 == [w EXCEPT !.state.isLocked = FALSE]
             suggestion == generateSuggestion(w1.state)
             w2 == [w1 EXCEPT !.dom.suggestionText =
                                  IF suggestion = NULL THEN NoOutput ELSE suggestion,
                              !.state.signalTone = updateSignalTone(w1.state)]
         IN checkStability(w2, suggestion, t)

----------------------------------------------------------------------------
(* GESTURE TRACKER: detectHeadGesture, src/script.js:628-657 *)

Dir(d, threshold) == IF d > threshold THEN 1 ELSE IF d < -threshold THEN -1 ELSE 0

RECURSIVE ScanDeltas(_, _, _)
ScanDeltas(points, i, acc) ==
    IF i > Len(points) THEN acc
    ELSE LET xDir == Dir(points[i].x - points[i - 1].x, SHAKE_THRESHOLD)
             yDir == Dir(points[i].y - points[i - 1].y, NOD_THRESHOLD)
         IN ScanDeltas(points, i + 1,
              [xChanges |-> acc.xChanges +
                   (IF xDir # 0 /\ xDir # acc.lastXDir /\ acc.lastXDir # 0 THEN 1 ELSE 0),
               yChanges |-> acc.yChanges +
                   (IF yDir # 0 /\ yDir # acc.lastYDir /\ acc.lastYDir # 0 THEN 1 ELSE 0),
               lastXDir |-> IF xDir # 0 THEN xDir ELSE acc.lastXDir,
               lastYDir |-> IF yDir # 0 THEN yDir ELSE acc.lastYDir])

(* A faulty classification for C23: the shake is looked for first. *)
detectHeadGestureShakeFirst(noseHistory) ==
    IF Len(noseHistory) < GESTURE_FRAMES THEN "still"
    ELSE LET points == SliceLast(noseHistory, GESTURE_FRAMES)
             acc == ScanDeltas(points, 2,
                        [xChanges |-> 0, yChanges |-> 0, lastXDir |-> 0, lastYDir |-> 0])
         IN IF acc.xChanges >= 2 THEN "shake"
            ELSE IF acc.yChanges >= 2 THEN "nod"
            ELSE "still"

detectHeadGesture(noseHistory) ==
    IF Len(noseHistory) < GESTURE_FRAMES THEN "still"
    ELSE LET points == SliceLast(noseHistory, GESTURE_FRAMES)
             acc == ScanDeltas(points, 2,
                        [xChanges |-> 0, yChanges |-> 0, lastXDir |-> 0, lastYDir |-> 0])
         IN IF acc.yChanges >= 2 THEN "nod"
            ELSE IF acc.xChanges >= 2 THEN "shake"
            ELSE "still"

(* A faulty pruning for C24: a sample exactly 500 ms old is retained. *)
trackNoseKeepsBoundary(s, noseTip, t) ==
    LET pushed == Append(s.noseHistory, [x |-> noseTip.x, y |-> noseTip.y, time |-> t])
        cutoff == t - HISTORY_WINDOW
        kept == SelectSeq(pushed, LAMBDA p : p.time >= cutoff)
        s1 == [s EXCEPT !.noseHistory = kept]
    IN IF Len(kept) >= GESTURE_FRAMES
       THEN [s1 EXCEPT !.headGesture = detectHeadGesture(kept),
                       !.movementScore =
                           Min(One, (Abs(kept[Len(kept)].x - kept[1].x)
                                     + Abs(kept[Len(kept)].y - kept[1].y)) * 5)]
       ELSE s1

(* the nose history and movement score, src/script.js:603-621 and 702-712 *)
trackNose(s, noseTip, t) ==
    LET pushed == Append(s.noseHistory, [x |-> noseTip.x, y |-> noseTip.y, time |-> t])
        cutoff == t - HISTORY_WINDOW
        kept == SelectSeq(pushed, LAMBDA p : p.time > cutoff)
        s1 == [s EXCEPT !.noseHistory = kept]
    IN IF Len(kept) >= GESTURE_FRAMES
       THEN [s1 EXCEPT !.headGesture = detectHeadGesture(kept),
                       !.movementScore =
                           Min(One, (Abs(kept[Len(kept)].x - kept[1].x)
                                     + Abs(kept[Len(kept)].y - kept[1].y)) * 5)]
       ELSE s1

----------------------------------------------------------------------------
(* SIGNAL EXTRACTOR: processResults, src/script.js:495-626, and            *)
(* detectSmileFromLandmarks, src/script.js:660-722.  Divisions round down  *)
(* to the thousandth.                                                      *)

getBlendshape(bs, name) == IF name \in DOMAIN bs THEN bs[name] ELSE 0

MouthRoles == {61, 291, 13, 14}
HasMouth(lm) == MouthRoles \subseteq DOMAIN lm
HasNose(lm) == 4 \in DOMAIN lm

mouthWidth(lm) == Abs(lm[291].x - lm[61].x)
mouthHeight(lm) == Abs(lm[14].y - lm[13].y)
mouthRatio(lm) == (mouthWidth(lm) * One) \div (mouthHeight(lm) + 1)
(* ((c - left.y) + (c - right.y)) / 2 with c = (upper.y + lower.y) / 2 *)
avgCornerLift(lm) == ((lm[13].y + lm[14].y) - (lm[61].y + lm[291].y)) \div 2

(* A faulty no-face branch for C19: the scores and the gesture are reset,  *)
(* as stopCamera resets them, and the emotion is left.                     *)
zeroSignalsKeepsEmotion(s) ==
    [s EXCEPT !.smileScore = 0, !.mouthOpenScore = 0, !.movementScore = 0,
              !.headGesture = "still"]

(* the no-face branch, src/script.js:496-506 *)
zeroSignals(s) ==
    [s EXCEPT !.smileScore = 0, !.mouthOpenScore = 0, !.movementScore = 0,
              !.headGesture = "still", !.currentEmotion = "neutral",
              !.emotionScores = [happy |-> 0, sad |-> 0, surprised |-> 0, neutral |-> One]]

(* the scores of the blendshape path, src/script.js:532-601 *)
blendshapeScores(s, lm, bs) ==
    LET blendshapeSmile ==
            (getBlendshape(bs, "mouthSmileLeft") + getBlendshape(bs, "mouthSmileRight")) \div 2
        landmarkSmile ==
            Clamp01(((mouthRatio(lm) - 2500) \div 2) + avgCornerLift(lm) * 15)
        smile == Max(blendshapeSmile, landmarkSmile)
        frownScore ==
            (getBlendshape(bs, "mouthFrownLeft") + getBlendshape(bs, "mouthFrownRight")) \div 2
        brow == (getBlendshape(bs, "browInnerUp") + getBlendshape(bs, "browOuterUpLeft")
                 + getBlendshape(bs, "browOuterUpRight")) \div 3
        browDown ==
            (getBlendshape(bs, "browDownLeft") + getBlendshape(bs, "browDownRight")) \div 2
        eyeOpen ==
            (getBlendshape(bs, "eyeWideLeft") + getBlendshape(bs, "eyeWideRight")) \div 2
        jawOpen == getBlendshape(bs, "jawOpen")
        happy == Min(One, smile * 2)
        sad == Min(One, (frownScore * 15 + browDown * 5) \div 10)
        surprised == Min(One, (brow * 8 + eyeOpen * 8 + jawOpen * 4) \div 10)
    IN [s EXCEPT !.smileScore = smile,
                 !.browScore = brow,
                 !.eyeOpenScore = eyeOpen,
                 !.mouthOpenScore = jawOpen,
                 !.emotionScores = [happy |-> happy, sad |-> sad, surprised |-> surprised,
                                    neutral |-> Max(0, One - happy - sad - surprised)],
                 !.currentEmotion = IF smile > 100 THEN "happy"
                                    ELSE IF sad > 150 THEN "sad"
                                    ELSE IF surprised > 200 THEN "surprised"
                                    ELSE "neutral"]

(* the scores of the landmark fallback, src/script.js:672-700 *)
landmarkScores(s, lm) ==
    LET lift == avgCornerLift(lm)
        smile == Clamp01(((mouthRatio(lm) - 2000) \div 3) + lift * 10)
        mouthOpen == Clamp01(mouthHeight(lm) * 5)
        sad == Max(0, -lift * 10)
    IN [s EXCEPT !.smileScore = smile,
                 !.mouthOpenScore = mouthOpen,
                 !.emotionScores = [happy |-> smile, sad |-> sad,
                                    surprised |-> mouthOpen \div 2,
                                    neutral |-> Max(0, One - smile - sad)],
                 !.currentEmotion = IF smile > 200 THEN "happy"
                                    ELSE IF sad > 200 THEN "sad"
                                    ELSE "neutral"]

(* A sample that lacks a mouth landmark throws at the first read of its    *)
(* coordinates, before any score is written; one that lacks the nose tip   *)
(* throws after the scores are written and before the history, the gesture *)
(* and updateSuggestion.  detectFace catches the exception.                *)
detectSmileFromLandmarks(w, lm, t) ==
    IF ~HasMouth(lm) THEN w
    ELSE LET w1 == [w EXCEPT !.state = landmarkScores(w.state, lm)] IN
         IF ~HasNose(lm) THEN w1
         ELSE updateSuggestion([w1 EXCEPT !.state = trackNose(w1.state, lm[4], t)], t)

processResults(w, results, t) ==
    IF results.kind = "none" THEN [w EXCEPT !.state = zeroSignals(w.state)]
    ELSE IF DOMAIN results.bs = {} THEN detectSmileFromLandmarks(w, results.lm, t)
    ELSE IF ~HasMouth(results.lm) THEN w
    ELSE LET w1 == [w EXCEPT !.state = blendshapeScores(w.state, results.lm, results.bs)] IN
         IF ~HasNose(results.lm) THEN w1
         ELSE updateSuggestion(
                  [w1 EXCEPT !.state = trackNose(w1.state, results.lm[4], t)], t)

----------------------------------------------------------------------------
(* CAMERA *)

(* A faulty stopCamera for C7: it resets the candidate with the signals. *)
stopCameraResetsCandidate(w) ==
    [w EXCEPT !.state.cameraRunning = FALSE,
              !.state.smileScore = 0,
              !.state.mouthOpenScore = 0,
              !.state.movementScore = 0,
              !.state.headGesture = "still",
              !.state.currentSuggestion = NULL,
              !.state.suggestionStartTime = NoTime]

(* stopCamera, src/script.js:434-453 *)
stopCamera(w) ==
    [w EXCEPT !.state.cameraRunning = FALSE,
              !.state.smileScore = 0,
              !.state.mouthOpenScore = 0,
              !.state.movementScore = 0,
              !.state.headGesture = "still"]

(* requestAnimationFrame(callback): it runs in the next frame, never in the *)
(* one that requested it                                                   *)
requestFrame(w, callback) == [w EXCEPT !.raf[callback].next = @ + 1]

(* the callback of a due animation frame is taken off the queue *)
takeFrame(w, callback) == [w EXCEPT !.raf[callback].ready = @ - 1]

(* a new frame begins: what was requested becomes due *)
nextFrame(r) ==
    [f \in DOMAIN r |-> [ready |-> r[f].ready + r[f].next, next |-> 0]]

(* A faulty detectFace for C30: it does not test at its top whether the    *)
(* camera runs.                                                            *)
detectFaceWhileStopped(w, results, t) ==
    IF ~w.state.faceLandmarker THEN requestFrame(w, "detectFace")
    ELSE LET w1 == IF results.kind \in {"stale", "throw"} THEN w
                   ELSE [processResults(w, results, t) EXCEPT !.thrown = FALSE]
         IN IF w1.state.cameraRunning THEN requestFrame(w1, "detectFace") ELSE w1

(* A faulty detectFace for C21: the try has no catch, so a tick that       *)
(* throws ends before it requests the next frame.                          *)
detectFaceUncaught(w, results, t) ==
    IF ~w.state.cameraRunning THEN w
    ELSE IF ~w.state.faceLandmarker THEN requestFrame(w, "detectFace")
    ELSE LET w1 == IF results.kind = "stale" THEN w
                   ELSE IF results.kind = "throw" THEN [w EXCEPT !.thrown = TRUE]
                   ELSE processResults(w, results, t)
         IN IF w1.state.cameraRunning /\ ~w1.thrown
            THEN requestFrame(w1, "detectFace") ELSE w1

(* detectFace, src/script.js:455-493; `results` is what this tick's frame  *)
(* gives: "stale" when the video has no new frame, "throw" when            *)
(* detectForVideo throws (caught at 485), else the detection result.  The  *)
(* same catch takes what processResults throws.                            *)
detectFace(w, results, t) ==
    IF ~w.state.cameraRunning THEN w
    ELSE IF ~w.state.faceLandmarker THEN requestFrame(w, "detectFace")
    ELSE LET w1 == IF results.kind \in {"stale", "throw"} THEN w
                   ELSE [processResults(w, results, t) EXCEPT !.thrown = FALSE]
         IN IF w1.state.cameraRunning THEN requestFrame(w1, "detectFace") ELSE w1

(* startCamera after getUserMedia and play() resolved, src/script.js:419-426 *)
startCamera(w, results, t) ==
    detectFace([w EXCEPT !.state.cameraRunning = TRUE, !.pending.camera = @ - 1],
               results, t)

(* toggleCamera, src/script.js:402-408, up to the await in startCamera *)
toggleCamera(w) ==
    IF w.state.cameraRunning THEN stopCamera(w)
    ELSE [w EXCEPT !.pending.camera = @ + 1]

----------------------------------------------------------------------------
(* MICROPHONE *)

(* stopMic, src/script.js:799-811 *)
stopMic(w) == [w EXCEPT !.state.micRunning = FALSE, !.state.soundLevel = 0]

(* monitorMic, src/script.js:813-826; `level` is the analyser's average *)
monitorMic(w, level) ==
    IF ~w.state.micRunning THEN w
    ELSE requestFrame([w EXCEPT !.state.soundLevel = level], "monitorMic")

(* startMic after getUserMedia resolved, src/script.js:779-790 *)
startMic(w, level) ==
    monitorMic([w EXCEPT !.state.micRunning = TRUE, !.pending.mic = @ - 1], level)

(* startMic when getUserMedia rejects, src/script.js:792-796 *)
startMicFailed(w) == [w EXCEPT !.dom.micToggle = FALSE, !.pending.mic = @ - 1]

(* toggleMic, src/script.js:769-775, up to the await in startMic *)
toggleMic(w) ==
    IF w.dom.micToggle THEN [w EXCEPT !.pending.mic = @ + 1] ELSE stopMic(w)

----------------------------------------------------------------------------
(* PATIENT / SESSION MANAGEMENT *)

(* startSession, src/script.js:350-366 *)
startSession(w, patientName) ==
    IF w.localStorage.full
    THEN [w EXCEPT !.state.currentPatient = patientName, !.thrown = TRUE]
    ELSE LET w1 == [w EXCEPT !.state.currentPatient = patientName,
                             !.localStorage.currentPatient = patientName]
         IN [loadPatientLog(w1) EXCEPT !.dom.view = "main"]

(* handleChangePatient, src/script.js:325-348 *)
handleChangePatient(w) ==
    LET w1 == IF w.state.cameraRunning THEN toggleCamera(w) ELSE w
        w2 == IF w1.state.micRunning
              THEN toggleMic([w1 EXCEPT !.dom.micToggle = FALSE])
              ELSE w1
        savedPatient == w2.localStorage.currentPatient
    IN [w2 EXCEPT !.dom.view = "welcome",
                  !.state.currentPatient =
                      IF savedPatient # NULL THEN savedPatient ELSE @]

(* A faulty clearLog for C16: the log is emptied in memory and not saved. *)
clearLogUnsaved(w) == [w EXCEPT !.state.conversationLog = <<>>]

(* clearLog once confirmed, src/script.js:1260-1266 *)
clearLog(w) == savePatientLog([w EXCEPT !.state.conversationLog = <<>>])

(* the message of a needs button, src/script.js:287-288 *)
needMessage(need) == "Needs " \o need

----------------------------------------------------------------------------
(* The state after construction, src/script.js:96-151 and init, 227-248,   *)
(* with nothing stored yet.                                                *)

InitialState ==
    [currentPatient |-> NULL,
     cameraRunning |-> FALSE, faceLandmarker |-> FALSE,
     micRunning |-> FALSE, soundLevel |-> 0,
     smileScore |-> 0, mouthOpenScore |-> 0, movementScore |-> 0,
     headGesture |-> "still", noseHistory |-> <<>>,
     currentEmotion |-> "neutral",
     emotionScores |-> [happy |-> 0, sad |-> 0, surprised |-> 0, neutral |-> 0],
     browScore |-> 0, eyeOpenScore |-> 0,
     currentSuggestion |-> NULL, suggestionStartTime |-> NoTime,
     isLocked |-> FALSE, lockEndTime |-> NoTime,
     lastTTSTime |-> 0, lastTTSMessage |-> NULL,
     currentOutput |-> NoOutput, outputTime |-> NoTime,
     signalTone |-> "neutral",
     conversationLog |-> <<>>,
     soundEnabled |-> TRUE]

InitialWorld ==
    [state |-> InitialState,
     localStorage |-> [currentPatient |-> NULL, log |-> [p \in Patients |-> Absent],
                       full |-> FALSE],
     timeouts |-> <<>>,
     utterance |-> [text |-> NULL, time |-> NoTime, said |-> {}],
     dom |-> [view |-> "welcome", micToggle |-> FALSE,
              suggestionText |-> NoOutput, stability |-> "waiting",
              outputTime |-> ""],
     raf |-> [detectFace |-> [ready |-> 0, next |-> 0],
              monitorMic |-> [ready |-> 0, next |-> 0]],
     pending |-> [camera |-> 0, mic |-> 0],
     thrown |-> FALSE]

Starts(w) ==
    /\ state = w.state
    /\ localStorage = w.localStorage
    /\ timeouts = w.timeouts
    /\ utterance = w.utterance
    /\ dom = w.dom
    /\ raf = w.raf
    /\ pending = w.pending

Init ==
    /\ Starts(InitialWorld)
    /\ now = PageLoadTime

----------------------------------------------------------------------------
(* Events.  Each is one run of a handler or callback at the instant `now`. *)

Frames == {FrameNone, FrameStale, FrameThrow, FrameNeutral, FrameSmile, FrameSad}
EventFrames == {FrameNone, FrameSmile}
SoundLevels == {0, 600}

(* time passes and the next animation frame begins; the model's frames are *)
(* half a stability time apart                                             *)
TickStep == STABILITY_TIME \div 2

Advance(horizon) ==
    /\ now + TickStep <= PageLoadTime + horizon
    /\ now' = now + TickStep
    /\ raf' = nextFrame(raf)
    /\ UNCHANGED <<state, localStorage, timeouts, utterance, dom, pending>>

(* a scheduled animation frame runs detectFace on the frame `results` *)
DetectFaceOn(results) ==
    /\ raf.detectFace.ready > 0
    /\ Becomes(detectFace(takeFrame(World, "detectFace"), results, now))
    /\ UNCHANGED now

DetectFace(frames) == \E results \in frames : DetectFaceOn(results)

(* initFaceLandmarker resolves, src/script.js:372-396 *)
FaceLandmarkerReady ==
    /\ ~state.faceLandmarker
    /\ state' = [state EXCEPT !.faceLandmarker = TRUE]
    /\ UNCHANGED <<localStorage, timeouts, utterance, dom, raf, pending, now>>

(* the click handler of the camera button, src/script.js:265 *)
CameraButtonClick ==
    /\ dom.view = "main"
    /\ Becomes(toggleCamera(World))
    /\ UNCHANGED now

ToggleCameraClick ==
    /\ state.cameraRunning \/ pending.camera < MaxPending
    /\ CameraButtonClick

(* getUserMedia and play() resolve: startCamera goes on and runs the first *)
(* detectFace itself                                                       *)
CameraStartsOn(results) ==
    /\ pending.camera > 0
    /\ Becomes(startCamera(World, results, now))
    /\ UNCHANGED now

CameraStartedOn(results) ==
    /\ raf.detectFace.ready + raf.detectFace.next < MaxFrames
    /\ CameraStartsOn(results)

CameraStarted(frames) == \E results \in frames : CameraStartedOn(results)

(* getUserMedia rejects: the catch of startCamera, src/script.js:428-431 *)
CameraRefused ==
    /\ pending.camera > 0
    /\ pending' = [pending EXCEPT !.camera = @ - 1]
    /\ UNCHANGED <<state, localStorage, timeouts, utterance, dom, raf, now>>

(* the change event of the mic toggle: the user flips the checkbox *)
ToggleMicChange ==
    /\ dom.view = "main"
    /\ dom.micToggle \/ pending.mic < MaxPending
    /\ Becomes(toggleMic([World EXCEPT !.dom.micToggle = ~@]))
    /\ UNCHANGED now

MicStarted ==
    /\ pending.mic > 0
    /\ raf.monitorMic.ready + raf.monitorMic.next < MaxFrames
    /\ \E level \in SoundLevels : Becomes(startMic(World, level))
    /\ UNCHANGED now

MicRefused ==
    /\ pending.mic > 0
    /\ Becomes(startMicFailed(World))
    /\ UNCHANGED now

MonitorMic ==
    /\ raf.monitorMic.ready > 0
    /\ \E level \in SoundLevels :
           Becomes(monitorMic(takeFrame(World, "monitorMic"), level))
    /\ UNCHANGED now

(* the change event of the sound toggle, src/script.js:267-269 *)
SoundToggleChange ==
    /\ dom.view = "main"
    /\ state' = [state EXCEPT !.soundEnabled = ~@]
    /\ UNCHANGED <<localStorage, timeouts, utterance, dom, raf, pending, now>>

(* the speak button, src/script.js:270-274 *)
SpeakClick ==
    /\ dom.view = "main"
    /\ Becomes(IF state.currentOutput # NoOutput
               THEN speak(World, state.currentOutput, now) ELSE World)
    /\ UNCHANGED now

(* a mood button, src/script.js:277-282 *)
MoodClickOn(mood) ==
    /\ dom.view = "main"
    /\ Becomes(commitMessage(World, mood, "mood", now))
    /\ UNCHANGED now

MoodClick(maxLog) ==
    /\ Len(state.conversationLog) < maxLog
    /\ \E mood \in Moods : MoodClickOn(mood)

(* a needs button, src/script.js:285-290 *)
NeedClickOn(need) ==
    /\ dom.view = "main"
    /\ Becomes(commitMessage(World, needMessage(need), "need", now))
    /\ UNCHANGED now

NeedClick(maxLog) ==
    /\ Len(state.conversationLog) < maxLog
    /\ \E need \in Needs : NeedClickOn(need)

(* the 200 ms timer of a commit fires *)
ShowOutput ==
    /\ timeouts # <<>>
    /\ Head(timeouts).due <= now
    /\ Becomes(showOutput(World, Head(timeouts)))
    /\ UNCHANGED now

(* setInterval(updateOutputTime, 1000), src/script.js:1032: the callback   *)
(* runs every second from page load on                                     *)
UpdateOutputTime ==
    /\ (now - PageLoadTime) % OUTPUT_INTERVAL = 0
    /\ Becomes(updateOutputTime(World))
    /\ UNCHANGED now

(* handleBeginSession with a non-empty trimmed name, src/script.js:301-312 *)
BeginSession(names) ==
    /\ dom.view = "welcome"
    /\ \E name \in names : Becomes(startSession(World, name))
    /\ UNCHANGED now

(* handleContinueSession, src/script.js:314-316 *)
ContinueSession ==
    /\ dom.view = "welcome"
    /\ localStorage.currentPatient # NULL
    /\ Becomes(startSession(World, state.currentPatient))
    /\ UNCHANGED now

ChangePatientClick ==
    /\ dom.view = "main"
    /\ Becomes(handleChangePatient(World))
    /\ UNCHANGED now

ClearLogClick ==
    /\ dom.view = "main"
    /\ Becomes(clearLog(World))
    /\ UNCHANGED now

(* the environment: the storage fills up (another page of the origin uses  *)
(* up the quota) or room is made again; setItem throws while it is full    *)
StorageQuotaChange ==
    /\ localStorage' = [localStorage EXCEPT !.full = ~@]
    /\ UNCHANGED <<state, timeouts, utterance, dom, raf, pending, now>>

----------------------------------------------------------------------------
(* Spec: every event, from the constructed page.  The specifications      *)
(* below are parts of it that TLC can exhaust.                             *)

Next ==
    \/ Advance(Horizon)
    \/ DetectFace(Frames)
    \/ FaceLandmarkerReady
    \/ ToggleCameraClick
    \/ CameraStarted(Frames)
    \/ CameraRefused
    \/ ToggleMicChange
    \/ MicStarted
    \/ MicRefused
    \/ MonitorMic
    \/ SoundToggleChange
    \/ SpeakClick
    \/ MoodClick(MaxLog)
    \/ NeedClick(MaxLog)
    \/ ShowOutput
    \/ BeginSession(Patients)
    \/ ContinueSession
    \/ ChangePatientClick
    \/ ClearLogClick
    \/ StorageQuotaChange
    \/ UpdateOutputTime

Spec == Init /\ [][Next]_vars

----------------------------------------------------------------------------
(* SpecCommit: the evaluation loop of a running session (camera on, the    *)
(* landmarker loaded, mic off) with the mood buttons, over a stretch long  *)
(* enough for two signal commits.  The display timers of the commits stay  *)
(* pending here; Spec fires them.                                          *)

RunningWorld ==
    LET w1 == startSession(InitialWorld, "Ann")
        w2 == [w1 EXCEPT !.state.faceLandmarker = TRUE,
                         !.state.cameraRunning = TRUE,
                         !.raf.detectFace.ready = 1]
    IN w2

InitCommit ==
    /\ Starts(RunningWorld)
    /\ now = PageLoadTime

NextCommit ==
    \/ Advance(Horizon)
    \/ DetectFace(Frames)
    \/ MoodClick(MaxLog)

SpecCommit == InitCommit /\ [][NextCommit]_vars

----------------------------------------------------------------------------
(* SpecEvents: the events of a started session (landmarker loaded, camera  *)
(* and mic off at first): the frame loop, both device toggles,             *)
(* the speak, mood and needs buttons, the display timer, and leaving and    *)
(* starting the session again, over a stretch long enough for one signal   *)
(* commit.                                                                 *)

EventPatients == {"Ann"}

SessionWorld ==
    [startSession(InitialWorld, "Ann") EXCEPT !.state.faceLandmarker = TRUE]

InitEvents ==
    /\ Starts(SessionWorld)
    /\ now = PageLoadTime

NextEvents ==
    \/ Advance(EventHorizon)
    \/ DetectFace(EventFrames)
    \/ ToggleCameraClick
    \/ CameraStarted(EventFrames)
    \/ ToggleMicChange
    \/ MicStarted
    \/ MonitorMic
    \/ SpeakClick
    \/ MoodClick(MaxEventLog)
    \/ NeedClick(MaxEventLog)
    \/ ShowOutput
    \/ ChangePatientClick
    \/ BeginSession(EventPatients)
    \/ ContinueSession

SpecEvents == InitEvents /\ [][NextEvents]_vars

----------------------------------------------------------------------------
(* SpecOrigin: commits of every origin.  The frame loop of a running       *)
(* session on smiling and sad faces, with the mood and the needs buttons,  *)
(* over the stretch of SpecCommit: a second commit of the same message     *)
(* falls inside the repeat cooldown of the first.                          *)

OriginFrames == {FrameSmile, FrameSad}

NextOrigin ==
    \/ Advance(Horizon)
    \/ DetectFace(OriginFrames)
    \/ MoodClick(MaxLog)
    \/ NeedClick(MaxLog)

SpecOrigin == InitCommit /\ [][NextOrigin]_vars

----------------------------------------------------------------------------
(* SpecOutput: the output coordinator over a stretch longer than the       *)
(* repeat cooldown: commits from the mood and needs buttons of a started   *)
(* session, the display timers and the sound toggle.  commitMessage is run *)
(* at instants half a lock time apart.                                     *)

OutputStep == LOCK_TIME \div 2

Pass(horizon) ==
    /\ now + OutputStep <= PageLoadTime + horizon
    /\ now' = now + OutputStep
    /\ raf' = nextFrame(raf)
    /\ UNCHANGED <<state, localStorage, timeouts, utterance, dom, pending>>

InitOutput ==
    /\ Starts(SessionWorld)
    /\ now = PageLoadTime

NextOutput ==
    \/ Pass(OutputHorizon)
    \/ MoodClick(MaxOutputLog)
    \/ NeedClick(MaxOutputLog)
    \/ ShowOutput
    \/ SoundToggleChange

SpecOutput == InitOutput /\ [][NextOutput]_vars

----------------------------------------------------------------------------
(* SpecLog: the conversation log and its storage.  The page is loaded with *)
(* a log that earlier sessions of Ann left in storage, empty, one short of *)
(* the maximum or full, and her session is continued; then come commits    *)
(* from the mood and needs buttons, the clear button, and leaving and      *)
(* starting sessions for either patient.  The display timers stay pending  *)
(* here, so `timeouts` lists the commits made since the page was loaded.   *)

StoredSizes == {0, MAX_LOG_ITEMS - 1, MAX_LOG_ITEMS}

(* k entries as addToLog left them: newest first, 100 ms apart *)
EarlierLog(k) ==
    [i \in 1..k |-> [id |-> PageLoadTime - 100 * i, message |-> "Feeling tired",
                     type |-> "mood", patient |-> "Ann"]]

ReturningWorld(k) ==
    LET w0 == [InitialWorld EXCEPT !.localStorage.currentPatient = "Ann",
                                   !.localStorage.log["Ann"] = Stringify(EarlierLog(k)),
                                   !.state.currentPatient = "Ann"]
    IN [startSession(w0, "Ann") EXCEPT !.state.faceLandmarker = TRUE]

InitLog ==
    /\ \E k \in StoredSizes : Starts(ReturningWorld(k))
    /\ now = PageLoadTime

NextLog ==
    \/ Advance(LogHorizon)
    \/ (Len(timeouts) < MaxInserts /\ \E mood \in Moods : MoodClickOn(mood))
    \/ (Len(timeouts) < MaxInserts /\ \E need \in Needs : NeedClickOn(need))
    \/ ClearLogClick
    \/ ChangePatientClick
    \/ BeginSession(Patients)
    \/ ContinueSession

SpecLog == InitLog /\ [][NextLog]_vars

----------------------------------------------------------------------------
(* SpecFaults: the frame loop of a running session on frames that fail: a  *)
(* detect call that throws and samples without the mouth roles or without  *)
(* the nose tip, between smiling faces and frames without a face.          *)

FaultFrames == {FrameSmile, FrameNone, FrameThrow, FrameNoMouth, FrameNoNose}

NextFaults ==
    \/ Advance(Horizon)
    \/ DetectFace(FaultFrames)

SpecFaults == InitCommit /\ [][NextFaults]_vars

----------------------------------------------------------------------------
(* SpecLoop: the life of the frame loop.  A session is started before the  *)
(* landmarker has loaded; the camera is toggled, the patient changed and   *)
(* the session started again while camera starts are pending and callbacks *)
(* scheduled, the storage fills up and is freed, and the frames are        *)
(* smiling faces, detect calls that throw and samples without a nose tip.  *)
(* A camera start may find callbacks of an earlier run still scheduled.    *)

LoopFrames == {FrameSmile, FrameThrow, FrameNoNose}

LoadingWorld == startSession(InitialWorld, "Ann")

InitLoop ==
    /\ Starts(LoadingWorld)
    /\ now = PageLoadTime

(* the camera button may be clicked again while a start is pending *)
ToggleCameraClickAgain ==
    /\ state.cameraRunning \/ pending.camera < MaxLoops
    /\ CameraButtonClick

CameraStartedAgain(frames) ==
    /\ raf.detectFace.ready + raf.detectFace.next < MaxLoops
    /\ \E results \in frames : CameraStartsOn(results)

NextLoop ==
    \/ Advance(LoopHorizon)
    \/ DetectFace(LoopFrames)
    \/ FaceLandmarkerReady
    \/ ToggleCameraClickAgain
    \/ CameraStartedAgain(LoopFrames)
    \/ ChangePatientClick
    \/ ContinueSession
    \/ StorageQuotaChange

SpecLoop == InitLoop /\ [][NextLoop]_vars

----------------------------------------------------------------------------
(* SpecGesture: detectHeadGesture on every window of ten nose samples over *)
(* three positions.  Between NoseA and NoseB the vertical delta exceeds    *)
(* its threshold and the horizontal one equals its own; between NoseA and  *)
(* NoseC it is the other way round; between NoseB and NoseC both deltas    *)
(* are small.  The frame loop of a running session has processed nine      *)
(* neutral faces, 50 ms apart, and processes the tenth.                    *)

NoseStep == HISTORY_WINDOW \div GESTURE_FRAMES

NoseA == Pt(500, 500)
NoseB == Pt(520, 516)
NoseC == Pt(521, 515)
NosePoints == {NoseA, NoseB, NoseC}

FrameNose(nose) ==
    [kind |-> "face", lm |-> RestMouth(nose), bs |-> Shapes({"jawOpen"}, 0)]

NoseFrames == {FrameNose(nose) : nose \in NosePoints}

(* the world after the loop has processed faces with the noses path[1..k], *)
(* one per animation frame, the first at page load                         *)
RECURSIVE Replayed(_, _)
Replayed(path, k) ==
    IF k = 0 THEN RunningWorld
    ELSE LET w == detectFace(takeFrame(Replayed(path, k - 1), "detectFace"),
                             FrameNose(path[k]), PageLoadTime + NoseStep * (k - 1))
         IN [w EXCEPT !.raf = nextFrame(@)]

InitGesture ==
    /\ \E path \in [1..(GESTURE_FRAMES - 1) -> NosePoints] :
           Starts(Replayed(path, GESTURE_FRAMES - 1))
    /\ now = PageLoadTime + NoseStep * (GESTURE_FRAMES - 1)

NextGesture == DetectFace(NoseFrames)

SpecGesture == InitGesture /\ [][NextGesture]_vars

----------------------------------------------------------------------------
(* SpecNose: the nose history around the ten-sample mark.  The frame loop  *)
(* has processed nine faces 50 ms apart, the nose at NoseA or NoseB, and   *)
(* goes on at the same pace for three frames, each of which may be missed  *)
(* (the callback runs a frame later).  The faces it sees hold the nose at  *)
(* NoseA, with blendshapes, or at NoseB, without (the landmark fallback).  *)

NodPoints == {NoseA, NoseB}

FrameLandmarkNose(nose) == [kind |-> "face", lm |-> RestMouth(nose), bs |-> NoShapes]

NoseTrackFrames == {FrameNose(NoseA), FrameLandmarkNose(NoseB)}

Glance(horizon) ==
    /\ now + NoseStep <= PageLoadTime + horizon
    /\ now' = now + NoseStep
    /\ raf' = nextFrame(raf)
    /\ UNCHANGED <<state, localStorage, timeouts, utterance, dom, pending>>

InitNose ==
    /\ \E path \in [1..(GESTURE_FRAMES - 1) -> NodPoints] :
           Starts(Replayed(path, GESTURE_FRAMES - 1))
    /\ now = PageLoadTime + NoseStep * (GESTURE_FRAMES - 1)

NextNose ==
    \/ Glance(NoseHorizon)
    \/ DetectFace(NoseTrackFrames)

SpecNose == InitNose /\ [][NextNose]_vars

----------------------------------------------------------------------------
(* SpecScores: the frame loop of a running session on samples at the ends  *)
(* of their ranges, with blendshapes and without.                          *)

ScoreFrames ==
    {FrameNone, FrameSmile, FrameFullShapes,
     FrameLandmarkSmile, FrameLandmarkGape, FrameLandmarkFrown}

NextScores ==
    \/ Advance(Horizon)
    \/ DetectFace(ScoreFrames)

SpecScores == InitCommit /\ [][NextScores]_vars

----------------------------------------------------------------------------
(* SpecRate: the pace of the commits.  The frame loop of a running session *)
(* on smiling faces with the mood button, which is offered before, at the  *)
(* instant of and after a signal commit, over the stretch of SpecCommit:   *)
(* a signal commit, a button commit and the signal commit that follows.    *)

RateFrames == {FrameSmile}

NextRate ==
    \/ Advance(RateHorizon)
    \/ DetectFace(RateFrames)
    \/ MoodClick(MaxRateLog)

SpecRate == InitCommit /\ [][NextRate]_vars

----------------------------------------------------------------------------
(* SpecLine: the line under the output across sessions.  Ann's session is  *)
(* running; the mood and needs buttons commit, the display timers and the  *)
(* one-second refresh of the line run, the session is left and a session   *)
(* is started for either patient, at instants half a lock time apart.      *)

NextLine ==
    \/ Pass(LineHorizon)
    \/ MoodClick(MaxLineLog)
    \/ NeedClick(MaxLineLog)
    \/ ShowOutput
    \/ UpdateOutputTime
    \/ ChangePatientClick
    \/ BeginSession(Patients)
    \/ ContinueSession

SpecLine == InitOutput /\ [][NextLine]_vars

----------------------------------------------------------------------------
(* SpecRules: the rule engine on every combination of signal values at,    *)
(* just above and below its thresholds.  The machine is unlocked and holds *)
(* no candidate, and the one action is updateSuggestion, which calls       *)
(* generateSuggestion and shows what it returned.                          *)

Gestures == {"still", "nod", "shake"}
AroundMouthOpen == {0, 150, 151}
AroundSound == {0, 400, 401}
AroundMovement == {0, 500, 501}
AroundSmile == {0, 80, 81}
AroundSad == {150, 151}
AroundSurprised == {200, 201}

InitRules ==
    /\ \E g \in Gestures, m \in AroundMouthOpen, snd \in AroundSound,
          mv \in AroundMovement, sm \in AroundSmile, sd \in AroundSad,
          su \in AroundSurprised :
          state = [RunningWorld.state EXCEPT
                      !.headGesture = g, !.mouthOpenScore = m, !.soundLevel = snd,
                      !.movementScore = mv, !.smileScore = sm,
                      !.emotionScores = [happy |-> Min(One, 2 * sm), sad |-> sd,
                                         surprised |-> su, neutral |-> 0]]
    /\ localStorage = RunningWorld.localStorage
    /\ timeouts = <<>>
    /\ utterance = RunningWorld.utterance
    /\ dom = RunningWorld.dom
    /\ raf = RunningWorld.raf
    /\ pending = RunningWorld.pending
    /\ now = PageLoadTime

Evaluate ==
    /\ Becomes(updateSuggestion(World, now))
    /\ UNCHANGED now

NextRules == Evaluate

SpecRules == InitRules /\ [][NextRules]_vars

----------------------------------------------------------------------------
(* Vocabulary of the properties.  A tick is one run of detectFace: the     *)
(* callback of an animation frame, or the first run startCamera makes.  It *)
(* evaluates when it reaches updateSuggestion: the camera runs, the        *)
(* landmarker is loaded and the frame holds a face with its landmarks.     *)

Candidate(s) == <<s.currentSuggestion, s.suggestionStartTime>>
Lock(s) == <<s.isLocked, s.lockEndTime>>

TickOn(results) == DetectFaceOn(results) \/ CameraStartedOn(results)
Tick == \E results \in Frames : TickOn(results)
Evaluates(results) ==
    /\ state'.cameraRunning
    /\ state.faceLandmarker
    /\ results.kind = "face" /\ HasMouth(results.lm) /\ HasNose(results.lm)
EvaluationOn(results) == TickOn(results) /\ Evaluates(results)
WasFrozen == state.isLocked /\ now < state.lockEndTime

(* what the tick's evaluation returned, as updateSuggestion shows it *)
Shown == dom'.suggestionText

ButtonCommit ==
    \/ \E mood \in Moods : MoodClickOn(mood)
    \/ \E need \in Needs : NeedClickOn(need)

(* this step commits `message` from the signal path: one more log entry at *)
(* the head and one more display timer                                     *)
SignalCommit(message) ==
    /\ state'.conversationLog =
           <<[id |-> now, message |-> message, type |-> "signal",
              patient |-> state.currentPatient]>> \o state.conversationLog
    /\ Len(timeouts') = Len(timeouts) + 1

(* this step logs `message` with `type` on top of the log as it was *)
Logged(message, type) ==
    state'.conversationLog =
        <<[id |-> now, message |-> message, type |-> type,
           patient |-> state.currentPatient]>> \o state.conversationLog

(* this step is a commit (it registers one display timer) that speaks *)
SpokenCommit ==
    /\ Len(timeouts') = Len(timeouts) + 1
    /\ utterance'.text = timeouts'[Len(timeouts')].message
    /\ utterance'.time = now
    /\ [text |-> utterance'.text, time |-> now] \in utterance'.said

(* a commit with sound enabled, 10000 ms or more after the last speech *)
CommitAfterRepeatCooldown ==
    /\ Len(timeouts') = Len(timeouts) + 1
    /\ state.soundEnabled
    /\ now - state.lastTTSTime >= 10000

(* the zero signal frame: scores 0, gesture still, emotion neutral *)
ZeroScores(s) ==
    /\ s.smileScore = 0 /\ s.mouthOpenScore = 0 /\ s.movementScore = 0
    /\ s.headGesture = "still"
    /\ s.emotionScores.happy = 0 /\ s.emotionScores.sad = 0
    /\ s.emotionScores.surprised = 0
    /\ s.currentEmotion = "neutral"

(* a tick that reaches the detect call: the camera runs, the landmarker is *)
(* loaded and the video has a new frame                                    *)
Detects(results) ==
    /\ TickOn(results)
    /\ state'.cameraRunning /\ state.faceLandmarker
    /\ results.kind # "stale"

(* this step commits nothing *)
NoCommit ==
    /\ state'.conversationLog = state.conversationLog
    /\ timeouts' = timeouts
    /\ utterance' = utterance

LogHead == Head(state.conversationLog)
LastNose == state.noseHistory[Len(state.noseHistory)]
(* a frame with a face was processed at this instant *)
FaceSeenNow == state.noseHistory # <<>> /\ LastNose.time = now

----------------------------------------------------------------------------
(* C1: on an evaluating tick of the unlocked machine whose suggestion is   *)
(* the candidate already held, the suggestion is committed exactly once as *)
(* soon as the candidate has been held for 800 ms (and not before): the    *)
(* candidate is cleared and the machine is locked until now + 4000.        *)
C1_StableSuggestionCommitsOnce ==
    [][\A results \in Frames :
          (EvaluationOn(results) /\ ~WasFrozen
           /\ Shown # NoOutput /\ Shown = state.currentSuggestion)
          => IF now - state.suggestionStartTime >= 800
             THEN /\ SignalCommit(Shown)
                  /\ Candidate(state') = <<NULL, NoTime>>
                  /\ Lock(state') = <<TRUE, now + 4000>>
             ELSE /\ NoCommit
                  /\ Candidate(state') = Candidate(state)
                  /\ ~state'.isLocked]_vars

(* a signal commit was just made: the log's head is it, the candidate is   *)
(* cleared and the lock ends 4000 ms after it                              *)
C1_Witness ==
    /\ state.conversationLog # <<>>
    /\ LogHead.type = "signal" /\ LogHead.id = now
    /\ Candidate(state) = <<NULL, NoTime>>
    /\ Lock(state) = <<TRUE, LogHead.id + 4000>>

(* C2: a tick of the locked machine before the lock ends changes neither   *)
(* the candidate nor its start time nor the lock, commits nothing and      *)
(* leaves the shown suggestion as it was, whatever the frame holds.        *)
C2_LockedTickIsFrozen ==
    [][\A results \in Frames :
          (TickOn(results) /\ WasFrozen)
          => /\ Candidate(state') = Candidate(state)
             /\ Lock(state') = Lock(state)
             /\ NoCommit
             /\ Shown = dom.suggestionText]_vars

(* locked after a commit of "Feeling happy", and a later frame inside the  *)
(* lock window showed a sad face: no candidate, no new entry               *)
C2_Witness ==
    /\ state.isLocked /\ now < state.lockEndTime
    /\ Len(state.conversationLog) = 1
    /\ LogHead.type = "signal" /\ LogHead.message = "Feeling happy"
    /\ FaceSeenNow /\ now > LogHead.id
    /\ state.emotionScores.sad > 150 /\ state.smileScore = 0
    /\ state.currentSuggestion = NULL

(* C3: an evaluating tick of the unlocked machine whose suggestion is not  *)
(* null and differs from the candidate makes it the candidate with start   *)
(* time now and commits nothing; and every signal commit is of the         *)
(* candidate held, at least 800 ms after its start time.                   *)
C3_ChangedCandidateRestartsClock ==
    [][/\ \A results \in Frames :
             (EvaluationOn(results) /\ ~WasFrozen
              /\ Shown # NoOutput /\ Shown # state.currentSuggestion)
             => /\ Candidate(state') = <<Shown, now>>
                /\ NoCommit
                /\ ~state'.isLocked
       /\ (/\ Len(state'.conversationLog) > Len(state.conversationLog)
           /\ Head(state'.conversationLog).type = "signal")
          => /\ Head(state'.conversationLog).message = state.currentSuggestion
             /\ state.suggestionStartTime # NoTime
             /\ now - state.suggestionStartTime >= 800]_vars

(* two frames in a row held a face and the candidate's clock started at    *)
(* the second: a sad face after a stretch of smiling                       *)
C3_Witness ==
    /\ Len(state.noseHistory) >= 2 /\ FaceSeenNow
    /\ Candidate(state) = <<"Feeling sad", now>>
    /\ now > PageLoadTime
    /\ ~state.isLocked
    /\ state.conversationLog = <<>>

(* C4: a tick at or after the lock's end leaves LOCKED for IDLE and        *)
(* evaluates at once: it ends as a tick from IDLE ends, unlocked, with     *)
(* nothing committed and the suggestion, if any, a candidate started now.  *)
C4_UnlockGoesToIdle ==
    [][\A results \in Frames :
          (EvaluationOn(results) /\ state.isLocked /\ now >= state.lockEndTime)
          => /\ ~state'.isLocked
             /\ NoCommit
             /\ Candidate(state') =
                    IF Shown = NoOutput THEN <<NULL, NoTime>> ELSE <<Shown, now>>]_vars

(* C5: after a processed frame without a face the machine holds no         *)
(* candidate and no start time.                                            *)
C5_NoFaceDecaysToIdle ==
    [][(TickOn(FrameNone) /\ state'.cameraRunning /\ state.faceLandmarker)
       => Candidate(state') = <<NULL, NoTime>>]_vars

(* C6: an evaluating tick of the unlocked machine whose suggestion is null *)
(* clears the candidate and its start time, leaves the machine unlocked    *)
(* and commits nothing.                                                    *)
C6_NullSuggestionClearsCandidate ==
    [][\A results \in Frames :
          (EvaluationOn(results) /\ ~WasFrozen /\ Shown = NoOutput)
          => /\ Candidate(state') = <<NULL, NoTime>>
             /\ ~state'.isLocked
             /\ NoCommit]_vars

(* a neutral face was evaluated at this instant, after the first frame:    *)
(* nothing shown, no candidate, waiting                                    *)
C6_Witness ==
    /\ FaceSeenNow /\ now > PageLoadTime
    /\ Len(state.noseHistory) >= 2
    /\ generateSuggestion(state) = NULL
    /\ dom.suggestionText = NoOutput /\ dom.stability = "waiting"
    /\ Candidate(state) = <<NULL, NoTime>>
    /\ ~state.isLocked

C8_CandidateIffStartTime ==
    (state.currentSuggestion # NULL) <=> (state.suggestionStartTime # NoTime)

(* a candidate is held, with the time it was first seen *)
C8_Witness ==
    /\ state.currentSuggestion = "Feeling happy"
    /\ state.suggestionStartTime = now - 400
    /\ FaceSeenNow

(* C9: with headGesture = nod the rule engine returns "Yes", whatever the  *)
(* other signals are.                                                      *)
C9_NodIsYes ==
    [][Evaluate => (state.headGesture = "nod" => Shown = "Yes")]_vars

(* a nod was evaluated to "Yes" with loud sound, an open mouth, movement   *)
(* and a smile all above their thresholds                                  *)
C9_Witness ==
    /\ state.headGesture = "nod"
    /\ state.soundLevel > 400 /\ state.mouthOpenScore > 150
    /\ state.movementScore > 500 /\ state.smileScore > 80
    /\ dom.suggestionText = "Yes" /\ state.currentSuggestion = "Yes"

(* C10: the rule engine returns the label of the first rule that holds, in *)
(* the stated order and with strict comparisons, null when none holds, and *)
(* leaves every signal as it was.                                          *)
C10_FirstMatchWins ==
    [][Evaluate =>
        LET g == state.headGesture
            sound == state.soundLevel > 400
            attention == state.mouthOpenScore > 150 /\ sound
            break == state.movementScore > 500 /\ sound
            happy == state.smileScore > 80
            sad == state.emotionScores.sad > 150
            surprised == state.emotionScores.surprised > 200
            gesture == g = "nod" \/ g = "shake"
        IN /\ (Shown = "Yes") <=> (g = "nod")
           /\ (Shown = "No") <=> (g # "nod" /\ g = "shake")
           /\ (Shown = "Needs attention") <=> (~gesture /\ attention)
           /\ (Shown = "Needs a break") <=> (~gesture /\ ~attention /\ break)
           /\ (Shown = "Feeling happy") <=> (~gesture /\ ~attention /\ ~break /\ happy)
           /\ (Shown = "Feeling sad")
                  <=> (~gesture /\ ~attention /\ ~break /\ ~happy /\ sad)
           /\ (Shown = "Surprised")
                  <=> (~gesture /\ ~attention /\ ~break /\ ~happy /\ ~sad /\ surprised)
           /\ (Shown = NoOutput)
                  <=> (~gesture /\ ~attention /\ ~break /\ ~happy /\ ~sad /\ ~surprised)
           /\ state'.headGesture = state.headGesture
           /\ state'.soundLevel = state.soundLevel
           /\ state'.mouthOpenScore = state.mouthOpenScore
           /\ state'.movementScore = state.movementScore
           /\ state'.smileScore = state.smileScore
           /\ state'.emotionScores = state.emotionScores]_vars

(* every signal sits exactly on its threshold but sadness, one above:      *)
(* "Feeling sad" was returned                                              *)
C10_Witness ==
    /\ state.headGesture = "still"
    /\ state.soundLevel = 400 /\ state.mouthOpenScore = 150
    /\ state.movementScore = 500 /\ state.smileScore = 80
    /\ state.emotionScores.sad = 151 /\ state.emotionScores.surprised = 200
    /\ dom.suggestionText = "Feeling sad" /\ state.currentSuggestion = "Feeling sad"

(* C11: every commit, from a tick or from a mood or needs button, puts     *)
(* exactly one entry at the head of the log, with the committed message    *)
(* and the type of its origin, whether the commit is spoken or not; and    *)
(* nothing but a commit changes the log.                                   *)
C11_CommitLogsOneEntry ==
    [][/\ \A mood \in Moods : MoodClickOn(mood) => Logged(mood, "mood")
       /\ \A need \in Needs : NeedClickOn(need) => Logged(needMessage(need), "need")
       /\ (Tick /\ timeouts' # timeouts)
              => /\ Len(timeouts') = Len(timeouts) + 1
                 /\ Logged(timeouts'[Len(timeouts')].message, "signal")
       /\ state'.conversationLog # state.conversationLog
              => Len(timeouts') = Len(timeouts) + 1]_vars

(* a signal commit was just logged on top of an earlier entry and was not  *)
(* spoken, with sound enabled: the last speech is older                    *)
C11_Witness ==
    /\ Len(state.conversationLog) >= 2
    /\ LogHead.type = "signal" /\ LogHead.id = now
    /\ state.soundEnabled
    /\ utterance.time < now /\ utterance.text = LogHead.message

(* C12: the display timers run in the order of their commits, so the last  *)
(* pending one is that of the most recent commit, and once none is pending *)
(* the current output is the message of the most recent commit.            *)
C12_LastCommitIsDisplayed ==
    /\ timeouts # <<>>
           => /\ state.conversationLog # <<>>
              /\ timeouts[Len(timeouts)].message = LogHead.message
              /\ timeouts[Len(timeouts)].time = LogHead.id
    /\ (timeouts = <<>> /\ state.conversationLog # <<>>)
           => /\ state.currentOutput = LogHead.message
              /\ state.outputTime = LogHead.id

(* two different messages were committed at the same instant and both      *)
(* display timers have run: the output is the later one                    *)
C12_Witness ==
    /\ timeouts = <<>>
    /\ Len(state.conversationLog) >= 2
    /\ state.conversationLog[1].id = state.conversationLog[2].id
    /\ state.conversationLog[1].message # state.conversationLog[2].message
    /\ state.currentOutput = state.conversationLog[1].message

(* C13: a commit speaks exactly when sound is enabled, at least 4000 ms    *)
(* have passed since the last spoken commit and the message differs from   *)
(* the last spoken one or 10000 ms have passed; it then records now and    *)
(* the message as the last speech, and otherwise leaves both as they were  *)
(* and requests no speech.                                                 *)
C13_SpeechPolicy ==
    [][Len(timeouts') = Len(timeouts) + 1 =>
        LET message == timeouts'[Len(timeouts')].message
            since == now - state.lastTTSTime
            allowed == since >= 4000
                       /\ (message # state.lastTTSMessage \/ since >= 10000)
        IN IF state.soundEnabled /\ allowed
           THEN /\ utterance'.text = message /\ utterance'.time = now
                /\ utterance'.said =
                       utterance.said \cup {[text |-> message, time |-> now]}
                /\ state'.lastTTSTime = now
                /\ state'.lastTTSMessage = message
           ELSE /\ utterance' = utterance
                /\ state'.lastTTSTime = state.lastTTSTime
                /\ state'.lastTTSMessage = state.lastTTSMessage]_vars

(* with sound enabled, the message spoken 4000 ms ago was committed again  *)
(* and not spoken: the 4000 ms cooldown had passed, the repeat cooldown    *)
(* had not                                                                 *)
C13_Witness ==
    /\ state.conversationLog # <<>>
    /\ LogHead.id = now
    /\ state.soundEnabled
    /\ state.lastTTSTime = now - 4000
    /\ state.lastTTSMessage = LogHead.message
    /\ utterance.time = now - 4000
    /\ \A i \in 1..Len(state.conversationLog) :
           state.conversationLog[i].id \in {now, now - 4000}

C15_LogKeepsNewestFifty ==
    [][/\ Len(state'.conversationLog) <= 50
       /\ \A i \in 1..Len(state'.conversationLog) - 1 :
              state'.conversationLog[i].id >= state'.conversationLog[i + 1].id
       /\ Len(timeouts') = Len(timeouts) + 1
              => /\ state'.conversationLog[1].id = now
                 /\ state'.conversationLog[1].message = timeouts'[Len(timeouts')].message
                 /\ Len(state'.conversationLog) =
                        Min(50, Len(state.conversationLog) + 1)
                 /\ \A i \in 2..Len(state'.conversationLog) :
                        state'.conversationLog[i] = state.conversationLog[i - 1]]_vars

(* a full log of 50 earlier entries took two more: they head the log, 48   *)
(* of the earlier entries follow and the two oldest are gone                *)
C15_Witness ==
    /\ Len(state.conversationLog) = 50
    /\ Len(timeouts) = 2
    /\ state.conversationLog[1].id = now
    /\ state.conversationLog[2].id >= PageLoadTime
    /\ state.conversationLog[3] = EarlierLog(50)[1]
    /\ state.conversationLog[50] = EarlierLog(50)[48]

(* C16: after every commit and every confirmed clearing the item stored    *)
(* under the current patient's key is the text of the log in memory, and   *)
(* loading it gives that log back, entry for entry; no step changes the    *)
(* item of another patient; and whenever the current patient has a stored  *)
(* item, in particular after a session is left and started again, the log  *)
(* in memory is what that item parses to.                                  *)
C16_LogIsPersisted ==
    [][LET p == state'.currentPatient
           stored == localStorage'.log[p]
           world == [state |-> state', localStorage |-> localStorage',
                     timeouts |-> timeouts', utterance |-> utterance', dom |-> dom',
                     raf |-> raf', pending |-> pending']
       IN /\ (Len(timeouts') = Len(timeouts) + 1 \/ ClearLogClick)
                => /\ stored.present
                   /\ Len(stored.json) = Len(state'.conversationLog)
                   /\ \A i \in 1..Len(stored.json) :
                          stored.json[i] = StringifyEntry(state'.conversationLog[i])
                   /\ loadPatientLog(world).state.conversationLog
                          = state'.conversationLog
          /\ \A q \in Patients \ {state.currentPatient} :
                 localStorage'.log[q] = localStorage.log[q]
          /\ (p \in Patients /\ stored.present)
                => Parse(stored) = state'.conversationLog]_vars

(* Ann's session took an entry on top of her stored log, Bob's session was *)
(* started, took an entry and was left, and Ann's session was started      *)
(* again: her log is back in memory, her new entry at its head             *)
C16_Witness ==
    /\ dom.view = "main" /\ state.currentPatient = "Ann"
    /\ localStorage.log["Bob"].present
    /\ Len(Parse(localStorage.log["Bob"])) = 1
    /\ Len(state.conversationLog) = 50
    /\ LogHead.patient = "Ann" /\ LogHead.id >= PageLoadTime
    /\ state.conversationLog = Parse(localStorage.log["Ann"])
    /\ Len(timeouts) = 2 /\ timeouts[2].time > LogHead.id

(* C17: right after the camera is stopped the scores are 0, the gesture is *)
(* still and the emotion is fully neutral.                                 *)
C17_StopCameraResetsSignals ==
    [][(state.cameraRunning /\ ~state'.cameraRunning) => ZeroScores(state')]_vars

(* C18: while the mic toggle is off the sound level is 0.                  *)
C18_SoundLevelZeroWhileToggleOff ==
    ~dom.micToggle => state.soundLevel = 0

(* C19: after a processed frame without a face the scores are 0, the       *)
(* gesture is still, the emotion distribution is 0, 0, 0 with neutral 1    *)
(* and the dominant emotion is neutral.                                    *)
C19_NoFaceZeroesSignals ==
    [][Detects(FrameNone)
       => /\ ZeroScores(state')
          /\ state'.emotionScores.neutral = One]_vars

(* a frame without a face was processed 400 ms after a smiling face: the   *)
(* signals are zeroed, and the nose sample of the smiling face is the last *)
C19_Witness ==
    /\ state.noseHistory # <<>> /\ LastNose.time = now - 400
    /\ ZeroScores(state) /\ state.emotionScores.neutral = One
    /\ state.currentSuggestion = "Feeling happy"
    /\ state.cameraRunning

(* C20: after a tick whose detect call throws or whose sample lacks the    *)
(* mouth roles or the nose tip, the signals are the zero signal frame; the *)
(* tick itself goes through and schedules the next.                        *)
C20_FailedFrameIsNoFace ==
    [][\A results \in {FrameThrow, FrameNoMouth, FrameNoNose} :
          Detects(results)
          => /\ ZeroScores(state')
             /\ raf'.detectFace.next = raf.detectFace.next + 1]_vars


(* C21: while the camera runs a detectFace callback is always scheduled,   *)
(* and every run of detectFace with the camera running requests exactly    *)
(* one next frame: before the landmarker has loaded, when the detect call  *)
(* throws, and when processing the frame throws (a sample without a nose   *)
(* tip, a commit whose save fails); a run with the camera stopped requests *)
(* none.                                                                   *)
C21_LoopNeverHalts ==
    /\ [](state.cameraRunning => raf.detectFace.ready + raf.detectFace.next >= 1)
    /\ [][\A results \in LoopFrames :
             (DetectFaceOn(results) \/ CameraStartsOn(results))
                 => raf'.detectFace.next =
                        raf.detectFace.next + (IF state'.cameraRunning THEN 1 ELSE 0)]_vars

(* the tick at this instant committed a smile and the save threw (the      *)
(* entry is in memory, nothing is stored), and the next frame is requested *)
C21_Witness ==
    /\ state.cameraRunning /\ localStorage.full
    /\ state.conversationLog # <<>>
    /\ LogHead.id = now /\ LogHead.type = "signal"
    /\ ~localStorage.log["Ann"].present
    /\ raf.detectFace.next >= 1


(* C22: a signal commit made while the storage is full (the save throws)   *)
(* ends as one whose save succeeded: the entry at the head of the log in   *)
(* memory, the machine locked until 4000 ms after the commit, and the      *)
(* candidate cleared.                                                      *)
C22_FailedSaveCommitsAlike ==
    [][\A results \in LoopFrames :
          ( /\ DetectFaceOn(results) \/ CameraStartsOn(results)
            /\ localStorage.full
            /\ Len(timeouts') = Len(timeouts) + 1 )
              => /\ Logged(timeouts'[Len(timeouts')].message, "signal")
                 /\ Lock(state') = <<TRUE, now + LOCK_TIME>>
                 /\ Candidate(state') = <<NULL, NoTime>>]_vars


(* the flips of an axis over a window: the deltas beyond the threshold     *)
(* whose direction differs from that of the last such delta before them    *)
AxisFlips(values, threshold) ==
    LET dir(i) == Dir(values[i + 1] - values[i], threshold)
        moves == {i \in 1..(Len(values) - 1) : dir(i) # 0}
    IN Cardinality({i \in moves :
           \E j \in moves : /\ j < i
                            /\ \A k \in moves : ~(j < k /\ k < i)
                            /\ dir(j) # dir(i)})
VerticalFlips(points) ==
    AxisFlips([i \in 1..Len(points) |-> points[i].y], NOD_THRESHOLD)
HorizontalFlips(points) ==
    AxisFlips([i \in 1..Len(points) |-> points[i].x], SHAKE_THRESHOLD)

FaceFrameOn(results) ==
    /\ DetectFaceOn(results)
    /\ state.cameraRunning /\ state.faceLandmarker
    /\ results.kind = "face" /\ HasMouth(results.lm) /\ HasNose(results.lm)

(* C24: right after a processed face frame the nose history ends with the  *)
(* sample of that frame, every sample in it is younger than 500 ms, and    *)
(* the samples are in non-decreasing order of time.                        *)
C24_HistoryPrunedOnInsert ==
    [][\A results \in NoseTrackFrames :
          FaceFrameOn(results) =>
              LET h == state'.noseHistory IN
              /\ h # <<>>
              /\ h[Len(h)] = [x |-> results.lm[4].x, y |-> results.lm[4].y, time |-> now]
              /\ \A i \in 1..Len(h) : h[i].time > now - HISTORY_WINDOW
              /\ \A i, j \in 1..Len(h) : i < j => h[i].time <= h[j].time]_vars

(* a face frame has just been processed and the oldest samples are gone:   *)
(* the history starts after page load and is shorter than it was           *)
C24_Witness ==
    /\ FaceSeenNow
    /\ Len(state.noseHistory) < GESTURE_FRAMES
    /\ state.noseHistory[1].time > PageLoadTime + NoseStep

(* the movement score of a window: min(1, 5 * (|dx| + |dy|)) between its   *)
(* first and its last sample                                               *)
WindowMovement(h) ==
    Min(One, 5 * (Abs(h[Len(h)].x - h[1].x) + Abs(h[Len(h)].y - h[1].y)))

(* C25: after every processed face frame the movement score is that of the *)
(* nose-history window the frame retained, however many samples it holds.  *)
C25_MovementOfRetainedWindow ==
    [][\A results \in NoseTrackFrames :
          FaceFrameOn(results) =>
              state'.movementScore = WindowMovement(state'.noseHistory)]_vars

(* C27: whenever a face frame has just been processed and the nose history *)
(* holds fewer than ten samples, the head gesture is 'still'.              *)
C27_ShortWindowIsStill ==
    (FaceSeenNow /\ Len(state.noseHistory) < GESTURE_FRAMES)
        => state.headGesture = "still"


(* C26: the smile, mouth-open and movement scores and the four emotion     *)
(* scores lie between 0 and 1 in every state, for samples whose landmark   *)
(* coordinates and expression intensities lie between 0 and 1.             *)
C26_ScoresWithinUnit ==
    \A v \in {state.smileScore, state.mouthOpenScore, state.movementScore,
              state.emotionScores.happy, state.emotionScores.sad,
              state.emotionScores.surprised, state.emotionScores.neutral} :
        0 <= v /\ v <= One


(* C28: a tick that commits from the signal path does so 4000 ms or more   *)
(* after every commit in the log, whatever its type, and 4800 ms or more   *)
(* after every signal commit in the log.                                   *)
C28_SignalCommitsRateLimited ==
    [][\A results \in Frames :
          (TickOn(results) /\ SignalCommit(Shown)) =>
              \A i \in 1..Len(state.conversationLog) :
                  LET earlier == state.conversationLog[i] IN
                  /\ now - earlier.id >= LOCK_TIME
                  /\ earlier.type = "signal"
                         => now - earlier.id >= LOCK_TIME + STABILITY_TIME]_vars

(* a signal commit, a button commit, and the next signal commit exactly    *)
(* 4800 ms after the first                                                 *)
C28_Witness ==
    /\ Len(state.conversationLog) = 3
    /\ state.conversationLog[1].type = "signal"
    /\ state.conversationLog[2].type = "mood"
    /\ state.conversationLog[3].type = "signal"
    /\ state.conversationLog[1].id - state.conversationLog[3].id
           = LOCK_TIME + STABILITY_TIME


(* C29: at most one detectFace callback is scheduled at any time, whatever *)
(* the order of camera clicks, patient changes and camera starts.          *)
C29_OneDetectionLoop ==
    raf.detectFace.ready + raf.detectFace.next <= 1

(* C30: a detectFace callback that runs while the camera is stopped leaves *)
(* the whole state as it is (signals, candidate, lock, log), commits       *)
(* nothing, stores nothing and requests no further frame.                  *)
C30_StoppedCallbackDoesNothing ==
    [][\A results \in LoopFrames :
          (DetectFaceOn(results) /\ ~state.cameraRunning) =>
              /\ state' = state
              /\ NoCommit
              /\ dom' = dom /\ localStorage' = localStorage /\ pending' = pending
              /\ raf'.detectFace = [ready |-> raf.detectFace.ready - 1,
                                    next |-> raf.detectFace.next]]_vars

(* the camera has processed a smile and was stopped, and the callbacks it  *)
(* left scheduled have run: none is scheduled any more                     *)
C30_Witness ==
    /\ ~state.cameraRunning /\ pending.camera = 0
    /\ state.emotionScores.happy > 0
    /\ raf.detectFace.ready + raf.detectFace.next = 0


(* C31: a commit made while sound is disabled requests no speech and       *)
(* leaves the last speak time and the last spoken message as they were;    *)
(* it still locks the output until 4000 ms later and puts its entry at the *)
(* head of the log.                                                        *)
C31_MutedCommitKeepsSpeechState ==
    [][(Len(timeouts') = Len(timeouts) + 1 /\ ~state.soundEnabled)
          => /\ utterance' = utterance
             /\ state'.lastTTSTime = state.lastTTSTime
             /\ state'.lastTTSMessage = state.lastTTSMessage
             /\ Lock(state') = <<TRUE, now + LOCK_TIME>>
             /\ \E type \in {"mood", "need", "signal"} :
                    Logged(timeouts'[Len(timeouts')].message, type)]_vars

(* sound is disabled and a commit has just been made, late enough after    *)
(* page load to be spoken with sound enabled: nothing was ever spoken      *)
C31_Witness ==
    /\ ~state.soundEnabled
    /\ state.conversationLog # <<>> /\ LogHead.id = now
    /\ state.isLocked /\ state.lockEndTime = now + LOCK_TIME
    /\ now - state.lastTTSTime >= TTS_COOLDOWN
    /\ utterance.said = {} /\ state.lastTTSMessage = NULL


(* C32: whenever the line under the output reads '<patient> said           *)
(* <message>', that message was committed in a session of that patient:    *)
(* the patient's stored log holds an entry with the message, made at the   *)
(* instant the output was committed.                                       *)
C32_LineNamesCommittingPatient ==
    dom.outputTime # ""
        => \E p \in Patients :
               /\ localStorage.log[p].present
               /\ \E i \in 1..Len(Parse(localStorage.log[p])) :
                      LET entry == Parse(localStorage.log[p])[i] IN
                      /\ dom.outputTime = p \o " said " \o entry.message
                      /\ entry.id = state.outputTime

====
